---------------------------- MODULE Spec2Model ----------------------------
(***************************************************************************)
(* A model of the KLV parser of src/src/parser/mod.rs.                     *)
(*                                                                         *)
(* Bytes are the integers 0..255 and a buffer is a sequence of bytes.      *)
(* Rust indexes from 0 and slices are half open, so input[a..b] is         *)
(* SubSeq(input, a + 1, b).                                                *)
(*                                                                         *)
(* A u32 is kept as two 16-bit limbs [hi, lo] (value hi * 2^16 + lo), so   *)
(* that all 32 bits are represented exactly.  A usize that comes from a    *)
(* u32 (`num as usize`, `byte as usize`) keeps the same form: the target   *)
(* is taken to have a 64-bit usize, where cursor + length cannot wrap for  *)
(* a length below 2^32.                                                    *)
(*                                                                         *)
(* A panic (expect on None, a slice out of range, panic!) unwinds the      *)
(* call: the caller receives no value.                                     *)
(***************************************************************************)
EXTENDS Integers, Sequences, FiniteSets, TLC

VARIABLES
  input,    \* Parser.input: the borrowed byte buffer
  cursor,   \* Parser.cursor
  klvs,     \* Parser.klvs (constructed empty, never written)
  klv_vec,  \* parse's local klv_vec
  pc,       \* parse: "loop" | "returned" | "panicked"; direct calls: "ready" | "called" | "panicked"
  log,      \* the (cursor_start, cursor_end) pairs printed by get_key / get_value
  last,     \* the most recent call: what was called, on what, and its outcome
  result    \* what the caller of parse receives

vars == <<input, cursor, klvs, klv_vec, pc, log, last, result>>

KEY_LENGTH == 16

Byte == 0..255
Limb == 2^16

-----------------------------------------------------------------------------
(* Bounds of the model's inputs *)

\* Most records placed in one buffer handed to parse.
MaxRecords == 2
\* Most stray bytes appended after the last record.
MaxTail == 3
\* Longest free-form buffer handed to the Parser methods directly.
MaxLen == 3
\* Largest length argument handed to get_value directly.
MaxArg == 3
\* Longest slice handed to the byte-assembly helpers.
MaxSliceLen == 5

-----------------------------------------------------------------------------
(* Slices, u32 arithmetic *)

At(s, i) == s[i + 1]
Slice(s, a, b) == SubSeq(s, a + 1, b)

RECURSIVE BitOr(_, _)
BitOr(a, b) ==
  IF a = 0 THEN b
  ELSE IF b = 0 THEN a
  ELSE (IF a % 2 = 1 \/ b % 2 = 1 THEN 1 ELSE 0) + 2 * BitOr(a \div 2, b \div 2)

\* u32::from(byte), byte as usize
u32_from(b) == [hi |-> 0, lo |-> b]

\* x << n on a u32, n < 32: the bits shifted out are dropped
RECURSIVE Shl(_, _)
Shl(x, n) ==
  IF n >= 16 THEN Shl([hi |-> x.lo, lo |-> 0], n - 16)
  ELSE [hi |-> (x.hi * 2^n + (x.lo * 2^n) \div Limb) % Limb,
        lo |-> (x.lo * 2^n) % Limb]

\* x | y on u32
Or32(x, y) == [hi |-> BitOr(x.hi, y.hi), lo |-> BitOr(x.lo, y.lo)]

\* A usize keeps the limbs of a u32, with hi free to pass 2^16 (64 bits).
\* Usize(n) is the usize n, for n a model integer, and ToInt its inverse.
Usize(n) == [hi |-> n \div Limb, lo |-> n % Limb]
ToInt(u) == u.hi * Limb + u.lo
\* a + b and a <= b on usize
UAdd(a, b) == [hi |-> a.hi + b.hi + (a.lo + b.lo) \div Limb,
               lo |-> (a.lo + b.lo) % Limb]
ULe(a, b) == a.hi < b.hi \/ (a.hi = b.hi /\ a.lo <= b.lo)

Ok(v) == [panicked |-> FALSE, val |-> v]
Panic == [panicked |-> TRUE, val |-> u32_from(0)]

-----------------------------------------------------------------------------
(* The byte-assembly helpers *)

two_u8s_to_u32_be(bytes) ==
  IF Len(bytes) >= 2
    THEN Ok(Or32(Shl(u32_from(At(bytes, 0)), 8), u32_from(At(bytes, 1))))
    ELSE Panic

two_u8s_to_u32(bytes) ==
  IF Len(bytes) >= 2
    THEN Ok(Or32(Shl(u32_from(At(bytes, 1)), 8), u32_from(At(bytes, 0))))
    ELSE Panic

three_u8s_to_u32(bytes) ==
  IF Len(bytes) >= 3
    THEN Ok(Or32(Or32(Shl(u32_from(At(bytes, 2)), 16),
                      Shl(u32_from(At(bytes, 1)), 8)),
                 u32_from(At(bytes, 0))))
    ELSE Panic

four_u8s_to_u32(bytes) ==
  IF Len(bytes) >= 4
    THEN Ok(Or32(Or32(Or32(Shl(u32_from(At(bytes, 3)), 24),
                           Shl(u32_from(At(bytes, 2)), 16)),
                      Shl(u32_from(At(bytes, 1)), 8)),
                 u32_from(At(bytes, 0))))
    ELSE Panic

u8s_to_u32(bytes) ==
  LET size == Len(bytes)
  IN  CASE size = 2 -> two_u8s_to_u32(bytes)
        [] size = 3 -> three_u8s_to_u32(bytes)
        [] size = 4 -> four_u8s_to_u32(bytes)
        [] OTHER    -> Panic

-----------------------------------------------------------------------------
(* Parser methods.  Each takes the Parser's input and cursor and yields     *)
(* the cursor it leaves, the Option it returns (some, val), whether it      *)
(* panicked instead of returning, and the cursor pairs it printed.          *)

has_next_whole_key(inp, cur) == cur + KEY_LENGTH <= Len(inp)

has_next(inp, cur) == cur < Len(inp)

increment_cursor_forgotten(cur, bytes) == cur

increment_cursor(cur, bytes) == cur + bytes

is_short_form_off_by_one(byte) == byte < 127

\* `if byte < 128`
is_short_form(byte) == byte < 128

get_length(inp, cur) ==
  IF cur < Len(inp)
    THEN LET byte == At(inp, cur)
         IN  IF is_short_form(byte)
               THEN [cursor |-> increment_cursor(cur, 1), some |-> TRUE,
                     val |-> u32_from(byte), panicked |-> FALSE,
                     msg |-> "", printed |-> <<>>]
               ELSE LET bytes_length == byte - 127
                    IN  IF cur + bytes_length > Len(inp)
                          THEN \* &self.input[cursor..cursor + bytes_length]
                               [cursor |-> cur, some |-> FALSE,
                                val |-> u32_from(0), panicked |-> TRUE,
                                msg |-> "slice index out of range",
                                printed |-> <<>>]
                          ELSE LET u8s_array == Slice(inp, cur, cur + bytes_length)
                                   moved == increment_cursor(cur, bytes_length)
                                   num == u8s_to_u32(u8s_array)
                               IN  IF num.panicked
                                     THEN [cursor |-> moved, some |-> FALSE,
                                           val |-> u32_from(0), panicked |-> TRUE,
                                           msg |-> "bytes array size must be between 2 and 4",
                                           printed |-> <<>>]
                                     ELSE [cursor |-> moved, some |-> TRUE,
                                           val |-> num.val, panicked |-> FALSE,
                                           msg |-> "", printed |-> <<>>]
    ELSE [cursor |-> cur, some |-> FALSE, val |-> u32_from(0),
          panicked |-> FALSE, msg |-> "", printed |-> <<>>]

get_key(inp, cur) ==
  LET cursor_start_pos == cur
      cursor_end_pos == cur + KEY_LENGTH
      printed == << <<Usize(cursor_start_pos), Usize(cursor_end_pos)>> >>
  IN  IF cur < Len(inp) /\ cursor_end_pos <= Len(inp)
        THEN LET input_slice == Slice(inp, cursor_start_pos, cursor_end_pos)
                 \* zip of the slice with the zeroed array: the shorter decides
                 klv_array == [i \in 1..KEY_LENGTH |->
                                 IF i <= Len(input_slice) THEN input_slice[i] ELSE 0]
             IN  [cursor |-> increment_cursor(cur, KEY_LENGTH), some |-> TRUE,
                  val |-> klv_array, panicked |-> FALSE, msg |-> "",
                  printed |-> printed]
        ELSE [cursor |-> cur, some |-> FALSE, val |-> <<>>,
              panicked |-> FALSE, msg |-> "", printed |-> printed]

\* get_value without the end-of-buffer test: the slice then panics, after
\* the cursor has moved.
get_value_unchecked(inp, cur, length) ==
  LET cursor_start_pos == Usize(cur)
      cursor_end_pos == UAdd(Usize(cur), length)
      printed == << <<cursor_start_pos, cursor_end_pos>> >>
  IN  IF cur < Len(inp)
        THEN IF ULe(cursor_end_pos, Usize(Len(inp)))
               THEN [cursor |-> increment_cursor(cur, ToInt(length)), some |-> TRUE,
                     val |-> Slice(inp, cur, ToInt(cursor_end_pos)),
                     panicked |-> FALSE, msg |-> "", printed |-> printed]
               ELSE [cursor |-> increment_cursor(cur, ToInt(length)), some |-> FALSE,
                     val |-> <<>>, panicked |-> TRUE,
                     msg |-> "slice index out of range", printed |-> printed]
        ELSE [cursor |-> cur, some |-> FALSE, val |-> <<>>,
              panicked |-> FALSE, msg |-> "", printed |-> printed]

get_value(inp, cur, length) ==
  LET cursor_start_pos == Usize(cur)
      cursor_end_pos == UAdd(Usize(cur), length)
      printed == << <<cursor_start_pos, cursor_end_pos>> >>
  IN  IF cur < Len(inp) /\ ULe(cursor_end_pos, Usize(Len(inp)))
        THEN [cursor |-> increment_cursor(cur, ToInt(length)), some |-> TRUE,
              val |-> Slice(inp, cur, ToInt(cursor_end_pos)),
              panicked |-> FALSE, msg |-> "", printed |-> printed]
        ELSE [cursor |-> cur, some |-> FALSE, val |-> <<>>,
              panicked |-> FALSE, msg |-> "", printed |-> printed]

Klv(key, length, value) == [key |-> key, length |-> length, value |-> value]

NoKlv == Klv(<<>>, u32_from(0), <<>>)

\* A read that read_next did not reach.
NotCalled(cur) ==
  [cursor |-> cur, some |-> FALSE, val |-> <<>>, panicked |-> FALSE,
   msg |-> "", printed |-> <<>>]

\* read_next, given what its three reads did (k: get_key, l: get_length,
\* v: get_value): each `expect` panics on None, and a panic inside a read
\* passes through.  failed names the read that did not return a value.
read_next(k, l, v) ==
  IF ~k.some
    THEN [cursor |-> k.cursor, panicked |-> TRUE, failed |-> "key",
          msg |-> "Unable to parse key", klv |-> NoKlv, printed |-> k.printed]
  ELSE IF ~l.some
    THEN [cursor |-> l.cursor, panicked |-> TRUE, failed |-> "length",
          msg |-> IF l.panicked THEN l.msg ELSE "Unable to parse length",
          klv |-> NoKlv, printed |-> k.printed]
  ELSE IF ~v.some
    THEN [cursor |-> v.cursor, panicked |-> TRUE, failed |-> "value",
          msg |-> IF v.panicked THEN v.msg ELSE "Unable to parse value",
          klv |-> NoKlv, printed |-> k.printed \o v.printed]
  ELSE [cursor |-> v.cursor, panicked |-> FALSE, failed |-> "none",
        msg |-> "", klv |-> Klv(k.val, l.val, v.val),
        printed |-> k.printed \o v.printed]

-----------------------------------------------------------------------------
(* Input buffers *)

SeqsUpTo(S, n) == UNION {[1..k -> S] : k \in 0..n}

RECURSIVE Concat(_)
Concat(ss) == IF ss = <<>> THEN <<>> ELSE Head(ss) \o Concat(Tail(ss))

\* A key whose 16 bytes all differ, a value whose bytes vary with position,
\* and stray bytes.
KeyBytes == {6}
Key(kb) == [i \in 1..KEY_LENGTH |-> (kb + i - 1) % 256]
Payload(n) == [i \in 1..n |-> (37 * i + 11) % 256]
Garbage(n) == [i \in 1..n |-> 255 - i]

\* The BER encoding of a length (ISO/IEC 8825-1): short form below 128,
\* else 0x80 + the number of octets, then the octets most significant first.
RECURSIVE BigEndian(_)
BigEndian(n) == IF n < 256 THEN <<n>> ELSE Append(BigEndian(n \div 256), n % 256)

BerLength(n) ==
  IF n < 128 THEN <<n>> ELSE <<128 + Len(BigEndian(n))>> \o BigEndian(n)

\* A Klv as bytes: 16-byte key + BER length + value.
Encode(klv) == klv.key \o BerLength(Len(klv.value)) \o klv.value

ValueLens == {0, 1, 2, 127, 128, 200, 256}
Klvs == {Klv(Key(kb), Usize(n), Payload(n)) : kb \in KeyBytes, n \in ValueLens}

\* Records as they may stand in a file: <<length field, bytes that follow>>.
RawShapes ==
  { << <<3>>, 2 >>,                 \* value cut short
    << <<128>>, 0 >>,               \* 0x80
    << <<129, 0>>, 129 >>,
    << <<130, 0, 0>>, 130 >>,
    << <<130, 0, 123>>, 123 >>,     \* 0x82 0x00 0x7B
    << <<131, 0, 0, 0>>, 131 >>,
    << <<131, 0, 0, 255>>, 0 >>,
    << <<132, 0, 0, 0, 1>>, 1 >>,
    << <<130>>, 0 >> }              \* a prefix with nothing after it

Segments ==
  {Encode(k) : k \in Klvs}
    \cup {Key(kb) \o sh[1] \o Payload(sh[2]) : kb \in KeyBytes, sh \in RawShapes}

ParseInputs ==
  {Concat(segs) \o Garbage(t) :
     segs \in SeqsUpTo(Segments, MaxRecords), t \in (0..MaxTail) \cup {10}}

LenBytes == {0, 2, 123, 127, 128, 129, 130}

UnitInputs ==
  {<<b>> : b \in Byte}
    \cup SeqsUpTo(LenBytes, MaxLen)
    \cup {Key(kb) \o s : kb \in KeyBytes, s \in SeqsUpTo(LenBytes, MaxLen)}
    \cup {<<131, 0, 0, 0>>, <<131, 1, 2, 255>>, <<132, 0, 0, 0, 1>>,
          <<130, 1, 0>> \o Payload(2)}

SliceBytes == {0, 12, 45, 101, 124, 255}
Slices == SeqsUpTo(SliceBytes, MaxSliceLen)

-----------------------------------------------------------------------------
(* parse(bytes) *)

NoCall == [op |-> "none", pre |-> 0, arg |-> <<>>, out |-> <<>>]
NoResult == [kind |-> "none", vec |-> <<>>, msg |-> ""]

\* Parser::new(bytes), klv_vec = Vec::new()
Start(bytes, at) ==
  /\ input = bytes
  /\ cursor = 0
  /\ klvs = <<>>
  /\ klv_vec = <<>>
  /\ pc = at
  /\ log = <<>>
  /\ last = NoCall
  /\ result = NoResult

Init == \E bytes \in ParseInputs : Start(bytes, "loop")

\* One turn of `while parser.has_next()`: read_next (get_key, then
\* get_length from where the key ended, then get_value of the length read)
\* and the push, or the unwinding of its panic.
ReadNext ==
  /\ pc = "loop"
  /\ has_next(input, cursor)
  /\ \E k \in {get_key(input, cursor)} :
     \E l \in {IF k.some THEN get_length(input, k.cursor) ELSE NotCalled(k.cursor)} :
     \E v \in {IF l.some THEN get_value(input, l.cursor, l.val) ELSE NotCalled(l.cursor)} :
     \E r \in {read_next(k, l, v)} :
       /\ cursor' = r.cursor
       /\ log' = log \o r.printed
       /\ last' = [op |-> "read_next", pre |-> cursor, arg |-> <<>>, out |-> r]
       /\ klv_vec' = IF r.panicked THEN klv_vec ELSE Append(klv_vec, r.klv)
       /\ pc' = IF r.panicked THEN "panicked" ELSE "loop"
       /\ result' = IF r.panicked
                      THEN [kind |-> "panic", vec |-> <<>>, msg |-> r.msg]
                      ELSE result
  /\ UNCHANGED <<input, klvs>>

\* The loop ends and parse returns klv_vec.
Return ==
  /\ pc = "loop"
  /\ ~has_next(input, cursor)
  /\ pc' = "returned"
  /\ result' = [kind |-> "returned", vec |-> klv_vec, msg |-> ""]
  /\ UNCHANGED <<input, cursor, klvs, klv_vec, log, last>>

Next == ReadNext \/ Return

Spec == Init /\ [][Next]_vars

\* parse is one sequential call: it runs until it returns or panics.
FairSpec == Spec /\ WF_vars(Next)

-----------------------------------------------------------------------------
(* The Parser's methods called one at a time, in any order *)

InitUnit == \E bytes \in UnitInputs : Start(bytes, "ready")

\* The lines a call prints are in last.out.printed; log, the lines of one
\* run of parse, is not written here.
Called(op, arg, r) ==
  /\ cursor' = r.cursor
  /\ last' = [op |-> op, pre |-> cursor, arg |-> arg, out |-> r]
  /\ pc' = IF r.panicked THEN "panicked" ELSE "ready"
  /\ UNCHANGED <<input, klvs, klv_vec, log, result>>

CallGetKey ==
  /\ pc = "ready"
  /\ Called("get_key", <<>>, get_key(input, cursor))

CallGetLength ==
  /\ pc = "ready"
  /\ Called("get_length", <<>>, get_length(input, cursor))

CallGetValue ==
  /\ pc = "ready"
  /\ \E n \in 0..MaxArg :
       Called("get_value", Usize(n), get_value(input, cursor, Usize(n)))

NextUnit == CallGetKey \/ CallGetLength \/ CallGetValue

SpecUnit == InitUnit /\ [][NextUnit]_vars

-----------------------------------------------------------------------------
(* The byte-assembly helpers called on a slice *)

\* input holds the slice the helper is handed.
InitBytes == \E bytes \in Slices : Start(bytes, "ready")

\* One call of a helper; the helpers keep no state between calls.
Helper(op, r) ==
  /\ pc = "ready"
  /\ pc' = IF r.panicked THEN "panicked" ELSE "called"
  /\ last' = [op |-> op, pre |-> 0, arg |-> input, out |-> r]
  /\ UNCHANGED <<input, cursor, klvs, klv_vec, log, result>>

CallTwo == Helper("two_u8s_to_u32", two_u8s_to_u32(input))

CallThree == Helper("three_u8s_to_u32", three_u8s_to_u32(input))

CallFour == Helper("four_u8s_to_u32", four_u8s_to_u32(input))

CallU8s == Helper("u8s_to_u32", u8s_to_u32(input))

NextBytes == CallTwo \/ CallThree \/ CallFour \/ CallU8s

SpecBytes == InitBytes /\ [][NextBytes]_vars

-----------------------------------------------------------------------------
(* Properties *)

\* The byte under the cursor when the last call was made, the octet count a
\* long-form prefix declares, and the octets after the prefix.
PreByte == At(input, last.pre)
OctetCount == PreByte - 128
Octets == Slice(input, last.pre + 1, last.pre + 1 + OctetCount)
LengthCalled == last.op = "get_length" /\ last.pre < Len(input)

\* The usize that octets spell most significant byte first.
RECURSIVE BigEndianValue(_)
BigEndianValue(bytes) ==
  IF bytes = <<>> THEN Usize(0)
  ELSE LET acc == BigEndianValue(SubSeq(bytes, 1, Len(bytes) - 1))
           low == acc.lo * 256 + bytes[Len(bytes)]
       IN  [hi |-> acc.hi * 256 + low \div Limb, lo |-> low % Limb]

\* C1: a long-form length field with 1 to 8 octets present after the prefix
\* decodes to those octets read most significant byte first, and the cursor
\* passes the prefix and the octets ([0x82, 0x00, 0x7B] gives 123, 3 bytes).
C1_LongFormBigEndian ==
  (LengthCalled /\ PreByte >= 128 /\ OctetCount \in 1..8
     /\ last.pre + 1 + OctetCount <= Len(input))
    => /\ ~last.out.panicked
       /\ last.out.some
       /\ last.out.val = BigEndianValue(Octets)
       /\ cursor = last.pre + 1 + OctetCount

\* C2: get_length on a byte b in 0..127 returns b and moves the cursor by
\* exactly one byte.
C2_ShortForm ==
  (LengthCalled /\ PreByte \in 0..127)
    => /\ ~last.out.panicked
       /\ last.out.some
       /\ last.out.val = Usize(PreByte)
       /\ cursor = last.pre + 1

C2_Witness ==
  /\ LengthCalled
  /\ PreByte = 127
  /\ last.pre > 0
  /\ last.out.val = Usize(127)

\* C3: a long-form prefix whose octet count is outside 1..8 makes get_length
\* return the error InvalidLengthEncoding to its caller: no length, no panic.
C3_InvalidLengthEncoding ==
  (LengthCalled /\ PreByte >= 128 /\ OctetCount \notin 1..8)
    => /\ ~last.out.panicked
       /\ ~last.out.some
       /\ last.out.msg = "InvalidLengthEncoding"

\* C4: parse of the encoding of a Klv (16-byte key, BER length, value)
\* returns exactly that Klv, whatever the length of its value.
C4_RoundTrip ==
  \A k \in Klvs :
    (input = Encode(k) /\ pc # "loop")
      => (pc = "returned" /\ result.kind = "returned" /\ result.vec = <<k>>)

TypedErrors == {"UnexpectedEndOfInput", "InvalidLengthEncoding", "TruncatedPayload"}

\* C5: when a read of read_next fails, the caller of parse receives a typed
\* error together with the records pushed so far.
C5_PartialResultOnError ==
  (last.op = "read_next" /\ last.out.panicked)
    => /\ result.kind # "panic"
       /\ result.msg \in TypedErrors
       /\ result.vec = klv_vec

\* C6: get_value(length) succeeds whenever at least length bytes remain
\* after the cursor (length 0 at the end of the buffer included), returning
\* the next length bytes and moving the cursor by length; otherwise it fails
\* and the cursor stays.
C6_ValueExtractor ==
  last.op = "get_value"
    => LET n == ToInt(last.arg)
       IN  IF last.pre + n <= Len(input)
             THEN /\ ~last.out.panicked
                  /\ last.out.some
                  /\ last.out.val = Slice(input, last.pre, last.pre + n)
                  /\ cursor = last.pre + n
             ELSE /\ ~last.out.some
                  /\ cursor = last.pre

\* C7: after any sequence of get_key, get_length and get_value calls the
\* cursor is between 0 and the length of the buffer.
C7_CursorInBounds == 0 <= cursor /\ cursor <= Len(input)

\* The cursor stands at the end of a buffer it has walked, and a get_value
\* asking for more was turned down.
C7_Witness ==
  /\ Len(input) > 0
  /\ cursor = Len(input)
  /\ last.op = "get_value"
  /\ ToInt(last.arg) > 0
  /\ ~last.out.some

\* C8: a turn of the parse loop that pushes a record moves the cursor
\* forward, and parse ends, by returning or by panicking.
C8_Progress ==
  /\ [][Len(klv_vec') > Len(klv_vec) => cursor' > cursor]_vars
  /\ <>(pc \in {"returned", "panicked"})

C8_Witness ==
  /\ pc = "returned"
  /\ Len(klv_vec) = 2
  /\ cursor = Len(input)

\* The bytes record i took, from what get_key and get_value printed for it:
\* the key's pair is log[2i - 1], the value's is log[2i].
KeyStart(i) == ToInt(log[2 * i - 1][1])
KeyEnd(i) == ToInt(log[2 * i - 1][2])
ValueStart(i) == ToInt(log[2 * i][1])
ValueEnd(i) == ToInt(log[2 * i][2])
LengthWidth(i) == ValueStart(i) - KeyEnd(i)

RECURSIVE BytesOfRecords(_)
BytesOfRecords(n) ==
  IF n = 0 THEN 0
  ELSE BytesOfRecords(n - 1) + KEY_LENGTH + LengthWidth(n) + Len(klv_vec[n].value)

\* C9: when parse returns, the cursor is at the end of the buffer, the
\* records' 16 + length-field width + value length add up to the length of
\* the buffer, and the records lie one after another in buffer order.
C9_ByteAccounting ==
  pc = "returned"
    => /\ cursor = Len(input)
       /\ result.vec = klv_vec
       /\ Len(log) = 2 * Len(klv_vec)
       /\ BytesOfRecords(Len(klv_vec)) = Len(input)
       /\ \A i \in 1..Len(klv_vec) :
            /\ KeyStart(i) = IF i = 1 THEN 0 ELSE ValueEnd(i - 1)
            /\ LengthWidth(i) >= 1
            /\ klv_vec[i].key = Slice(input, KeyStart(i), KeyEnd(i))
            /\ klv_vec[i].value = Slice(input, ValueStart(i), ValueEnd(i))

\* parse returned two records, one of them with a long-form length field.
C9_Witness ==
  /\ pc = "returned"
  /\ Len(klv_vec) = 2
  /\ \E i \in 1..2 : LengthWidth(i) > 1 /\ Len(klv_vec[i].value) >= 128

\* bytes[0] + 2^8 bytes[1] + ... over the first n bytes, as a u32.
LittleEndian(bytes, n) ==
  [hi |-> (IF n >= 3 THEN At(bytes, 2) ELSE 0) + 256 * (IF n >= 4 THEN At(bytes, 3) ELSE 0),
   lo |-> At(bytes, 0) + 256 * At(bytes, 1)]

\* C10: the helpers put bytes[0] lowest: two_, three_ and four_u8s_to_u32
\* return bytes[0] + 2^8 bytes[1] (+ 2^16 bytes[2] (+ 2^24 bytes[3])), a u32,
\* and u8s_to_u32 picks among them by the slice's size 2, 3 or 4.
C10_LittleEndian ==
  /\ (last.op = "two_u8s_to_u32" /\ Len(last.arg) >= 2)
       => last.out = Ok(LittleEndian(last.arg, 2))
  /\ (last.op = "three_u8s_to_u32" /\ Len(last.arg) >= 3)
       => last.out = Ok(LittleEndian(last.arg, 3))
  /\ (last.op = "four_u8s_to_u32" /\ Len(last.arg) >= 4)
       => last.out = Ok(LittleEndian(last.arg, 4))
  /\ (last.op = "u8s_to_u32" /\ Len(last.arg) \in 2..4)
       => last.out = Ok(LittleEndian(last.arg, Len(last.arg)))
  /\ (last.op # "none" /\ ~last.out.panicked)
       => last.out.val.hi \in 0..(Limb - 1) /\ last.out.val.lo \in 0..(Limb - 1)

\* [45, 124] gives 31789.
C10_Witness ==
  /\ last.op = "u8s_to_u32"
  /\ last.arg = <<45, 124>>
  /\ last.out = Ok(Usize(31789))

=============================================================================
